---- MODULE Spec2Model ----
(***************************************************************************)
(* A state-machine model of Valdi's AssetsManager                          *)
(* (valdi/runtime/Resources/AssetsManager.cpp).                            *)
(*                                                                         *)
(* Every step of the model is one region of code executed while the        *)
(* manager's recursive mutex is held (or one external call made with the   *)
(* mutex released), so the mutex is free between any two steps.  The main  *)
(* thread runs performUpdates; its position is kept in `stack`, one frame  *)
(* per performUpdates / endPauseUpdates in progress.  A drain is suspended *)
(* where the code releases the transaction's lock: around the observer's   *)
(* onLoad and after starting the resolution of a bundle asset.             *)
(***************************************************************************)
EXTENDS Integers, Sequences, FiniteSets, TLC

(***************************************************************************)
(* Bounds of the model.                                                    *)
(***************************************************************************)
MaxObservers == 2   \* observers 1..MaxObservers, each registered at most once
MaxPause == 1       \* number of beginPauseUpdates calls
MaxSetLoc == 2      \* number of setResolvedAssetLocation calls
MaxObservables == 2 \* number of ObservableAssets created for one key

Observers == 1 .. MaxObservers

(***************************************************************************)
(* Asset keys.  "url" is a URL key, "rem" a (bundle, path) key whose       *)
(* bundle has remote assets, "loc" a (bundle, path) key of a local bundle. *)
(***************************************************************************)
AllKeys == {"url", "rem", "loc"}
IsURL(k) == k = "url"
HasRemoteAssets(k) == k = "rem"

(***************************************************************************)
(* Results (Result<Ref<LoadedAsset>>): empty, a loaded artifact (named by  *)
(* the request handler that loaded it), a null artifact, or an error.      *)
(***************************************************************************)
ErrFetch == 1      \* RemoteModuleManager::loadResources failed
ErrNotFound == 2   \* "Did not find asset ..."
ErrNoLoader == 3   \* "Cannot resolve AssetLoader for URL scheme ..."
ErrNullAsset == 4  \* "AssetLoader provided a null asset"
ErrLoader == 5     \* the loader completed with an error

NoResult == [kind |-> "empty", a |-> 0]
Artifact(h) == [kind |-> "ok", a |-> h]
NullArtifact == [kind |-> "null", a |-> 0]
Err(e) == [kind |-> "err", a |-> e]

(***************************************************************************)
(* Resolved locations (Result<AssetLocation>, possibly unset): "none",     *)
(* the values "U" (the URL of a URL key), "L1", "L2", and the errors       *)
(* "E1" (remote fetch failed) and "ENF" (asset not found).                 *)
(***************************************************************************)
LocValues == {"U", "L1", "L2"}
LocErrors == {"E1", "ENF"}
LocIsOk(l) == l \in LocValues
LocIsErr(l) == l \in LocErrors
LocError(l) == IF l = "E1" THEN Err(ErrFetch) ELSE Err(ErrNotFound)

(***************************************************************************)
(* The AssetLoaderManager of the model: output type "img" has a loader     *)
(* that can reuse loaded assets, "raw" a loader that cannot, "bad" none.   *)
(***************************************************************************)
ResolveAssetLoader(t) == t # "bad"
CanReuseLoadedAssets(t) == t = "img"

VARIABLES
  assets,                       \* _assets: key -> ManagedAsset (present or not)
  handlers,                     \* every AssetLoaderRequestHandler created, by id
  pendingLoadRequests,          \* _pendingLoadRequests (handler ids)
  pendingLoadRequestsScheduled, \* _pendingLoadRequestsScheduled
  scheduledUpdates,             \* _scheduledUpdates
  pauseUpdatesCount,            \* _pauseUpdatesCount
  assetResolveIdSequence,       \* _assetResolveIdSequence
  removeUnusedLocalAssets,      \* _removeUnusedLocalAssets
  stack,                        \* main thread: frames of performUpdates / endPauseUpdates
  current,                      \* AssetsManagerTransaction::current(): index in stack, 0 = null
  dispatched,                   \* performUpdates closures dispatched to the main thread
  resolving,                    \* location resolutions in flight: [key, id]
  liveObs,                      \* key -> ids of the ObservableAssets alive
  obsMade,                      \* key -> number of ObservableAssets created so far
  log,                          \* observer -> what onLoad delivered to it
  obsKey,                       \* observer -> key it was added to ("-" = never added)
  removedObs,                   \* observers passed to removeAssetLoadObserver
  setLocCalls,                  \* setResolvedAssetLocation calls made
  pauseCalls,                   \* beginPauseUpdates calls made
  crashed,                      \* onLoad was invoked through a null observer
  drains,                       \* performUpdates calls made (0, 1, "2 or more")
  twin                          \* a second AssetsManager, given the same calls without pauses

vars == <<assets, handlers, pendingLoadRequests, pendingLoadRequestsScheduled,
          scheduledUpdates, pauseUpdatesCount, assetResolveIdSequence,
          removeUnusedLocalAssets, stack, current, dispatched,
          resolving, liveObs, obsMade, log, obsKey, removedObs, setLocCalls,
          pauseCalls, crashed, drains, twin>>

(***************************************************************************)
(* The state as one record, so that the code's procedures can be written   *)
(* as operators from state to state and composed as the code calls them.   *)
(***************************************************************************)
Cur ==
  [assets |-> assets, handlers |-> handlers, pending |-> pendingLoadRequests,
   flushScheduled |-> pendingLoadRequestsScheduled, scheduled |-> scheduledUpdates,
   pauseCount |-> pauseUpdatesCount, resolveSeq |-> assetResolveIdSequence,
   removeLocal |-> removeUnusedLocalAssets, stack |-> stack, current |-> current,
   dispatched |-> dispatched, resolving |-> resolving,
   liveObs |-> liveObs, obsMade |-> obsMade, log |-> log, obsKey |-> obsKey,
   removedObs |-> removedObs, setLocCalls |-> setLocCalls, pauseCalls |-> pauseCalls,
   crashed |-> crashed, drains |-> drains]

CommitVars(S) ==
  /\ assets' = S.assets
  /\ handlers' = S.handlers
  /\ pendingLoadRequests' = S.pending
  /\ pendingLoadRequestsScheduled' = S.flushScheduled
  /\ scheduledUpdates' = S.scheduled
  /\ pauseUpdatesCount' = S.pauseCount
  /\ assetResolveIdSequence' = S.resolveSeq
  /\ removeUnusedLocalAssets' = S.removeLocal
  /\ stack' = S.stack
  /\ current' = S.current
  /\ dispatched' = S.dispatched
  /\ resolving' = S.resolving
  /\ liveObs' = S.liveObs
  /\ obsMade' = S.obsMade
  /\ log' = S.log
  /\ obsKey' = S.obsKey
  /\ removedObs' = S.removedObs
  /\ setLocCalls' = S.setLocCalls
  /\ pauseCalls' = S.pauseCalls
  /\ crashed' = S.crashed
  /\ drains' = S.drains

\* A step of the manager; the second manager is not called.
Commit(S) ==
  /\ CommitVars(S)
  /\ twin' = twin

(***************************************************************************)
(* Objects.                                                                *)
(***************************************************************************)
\* A key with no ManagedAsset in _assets.
Absent ==
  [present |-> FALSE, state |-> "Initial", resolveId |-> 0, observable |-> 0,
   loc |-> "none", consumers |-> <<>>, caches |-> {}]

\* makeShared<ManagedAsset>()
NewManagedAsset == [Absent EXCEPT !.present = TRUE]

\* ManagedAsset::addConsumer() followed by the setters of addAssetLoadObserver.
\* `id` names the AssetConsumer object (it is the observer it was created for);
\* `observer` is the observer field, 0 when cleared.
NewConsumer(o, req) ==
  [id |-> o, observer |-> o, outputType |-> req.t, preferredWidth |-> req.w,
   preferredHeight |-> req.h, attachedData |-> req.a, state |-> "Initial",
   result |-> NoResult, notified |-> FALSE, handler |-> 0]

\* makeShared<AssetLoaderRequestHandler>(...).  `load` is the loader's side:
\* "idle", "inflight" (startLoadIfNeeded was called, no completion yet), "done"
\* (completed, onLoad took the result), "discarded" (completed, onLoad returned
\* at once).
NewHandler(k, c) ==
  [key |-> k, requestedWidth |-> c.preferredWidth, requestedHeight |-> c.preferredHeight,
   attachedData |-> c.attachedData, consumersCount |-> 0, scheduledForLoad |-> FALSE,
   scheduledForCancelation |-> FALSE, lastLoadResult |-> NoResult,
   load |-> "idle", starts |-> 0, cancels |-> 0]

\* A frame of the main thread's stack.  A performUpdates frame holds the
\* transaction's queue and where the drain stands: "run" (holding the lock),
\* "unlocked" (resolveAssetLocation released the lock), "notify" (lock
\* released by notifyAssetConsumer, onLoad not yet called), "cb" (inside
\* onLoad).  nk, nid, res: the consumer being notified and its result.
DrainFrame(q) == [t |-> "drain", q |-> q, pc |-> "run", nk |-> "-", nid |-> 0, res |-> NoResult]
EndPauseFrame == [t |-> "endPause", q |-> <<>>, pc |-> "wait", nk |-> "-", nid |-> 0, res |-> NoResult]

Range(s) == {s[i] : i \in 1 .. Len(s)}

RECURSIVE Dedup(_)
\* The keys of a sequence in order of first occurrence.
Dedup(s) ==
  IF s = <<>> THEN <<>>
  ELSE LET r == Dedup(SubSeq(s, 1, Len(s) - 1))
       IN IF s[Len(s)] \in Range(r) THEN r ELSE Append(r, s[Len(s)])

\* s without its element at position i.
RemoveAt(s, i) == SubSeq(s, 1, i - 1) \o SubSeq(s, i + 1, Len(s))

\* Saturating count of calls (0, 1, "2 or more").
Bump(n) == IF n < 2 THEN n + 1 ELSE 2

\* Index of the consumer object `id` in the managed asset's list, 0 when removed.
ConsumerIndex(cs, id) ==
  IF \E i \in 1 .. Len(cs) : cs[i].id = id
  THEN CHOOSE i \in 1 .. Len(cs) : cs[i].id = id
  ELSE 0

Top(S) == S.stack[Len(S.stack)]

(***************************************************************************)
(* Scheduling of updates.                                                  *)
(***************************************************************************)
\* AssetsManagerTransaction::enqueueUpdate: append unless already queued.
EnqueueUpdate(q, k) == IF k \in Range(q) THEN q ELSE Append(q, k)

\* scheduleAssetUpdate(transaction, assetKey); f is the transaction's frame.
ScheduleAssetUpdateTx(S, f, k) == [S EXCEPT !.stack[f].q = EnqueueUpdate(@, k)]

\* scheduleFlushLoadRequests
ScheduleFlushLoadRequests(S) ==
  IF ~S.flushScheduled /\ S.pending # <<>>
  THEN [S EXCEPT !.flushScheduled = TRUE]
  ELSE S

(***************************************************************************)
(* Request handlers.                                                       *)
(***************************************************************************)
\* A faulty updateConsumerRequestHandler: the outgoing handler loses its
\* consumer and is never scheduled for cancelation.
ReleaseRequestUnmarked(S, existing) ==
  IF existing = 0 THEN S
  ELSE [S EXCEPT !.handlers[existing].consumersCount = @ - 1]

\* updateConsumerRequestHandler, the part on the outgoing handler.
ReleaseRequest(S, existing) ==
  IF existing = 0 THEN S
  ELSE LET S1 == [S EXCEPT !.handlers[existing].consumersCount = @ - 1]
       IN IF S1.handlers[existing].consumersCount = 0
             /\ ~S1.handlers[existing].scheduledForCancelation
          THEN ScheduleFlushLoadRequests(
                 [S1 EXCEPT !.handlers[existing].scheduledForCancelation = TRUE,
                            !.pending = Append(@, existing)])
          ELSE S1

\* updateConsumerRequestHandler, the part on the incoming handler.
AcquireRequest(S, request) ==
  IF request = 0 THEN S
  ELSE LET S1 == [S EXCEPT !.handlers[request].consumersCount = @ + 1]
       IN IF ~S1.handlers[request].scheduledForLoad
          THEN ScheduleFlushLoadRequests(
                 [S1 EXCEPT !.handlers[request].scheduledForLoad = TRUE,
                            !.pending = Append(@, request)])
          ELSE S1

\* updateConsumerRequestHandler(assetConsumer, request) for the consumer at
\* position i of key k.
UpdateConsumerRequestHandler(S, k, i, request) ==
  LET existing == S.assets[k].consumers[i].handler
      S1 == [S EXCEPT !.assets[k].consumers[i].handler = request]
  IN AcquireRequest(ReleaseRequest(S1, existing), request)

\* onConsumerLoad, on a consumer record.
OnConsumerLoad(c, result) ==
  IF result.kind = "ok"
  THEN [c EXCEPT !.notified = FALSE, !.state = "Loaded", !.result = result]
  ELSE IF result.kind = "null"
  THEN [c EXCEPT !.notified = FALSE, !.state = "Failed", !.result = Err(ErrNullAsset)]
  ELSE [c EXCEPT !.notified = FALSE, !.state = "Failed", !.result = result]

\* A faulty loadAssetForConsumerAtResolvedLocation: the loop over the
\* consumers never finds a request handler to reuse.
ReusableConsumerNone(S, k, i) == 0

\* The first consumer whose request handler matches consumer i's request
\* (the loop of loadAssetForConsumerAtResolvedLocation), 0 when none.
ReusableConsumer(S, k, i) ==
  LET cs == S.assets[k].consumers
      c == cs[i]
      Match(j) ==
        /\ cs[j].handler # 0
        /\ S.handlers[cs[j].handler].requestedWidth = c.preferredWidth
        /\ S.handlers[cs[j].handler].requestedHeight = c.preferredHeight
        /\ S.handlers[cs[j].handler].attachedData = c.attachedData
        /\ cs[j].outputType = c.outputType
  IN IF \E j \in 1 .. Len(cs) : Match(j)
     THEN CHOOSE j \in 1 .. Len(cs) : Match(j) /\ \A j2 \in 1 .. (j - 1) : ~Match(j2)
     ELSE 0

\* loadAssetForConsumerAtResolvedLocation
LoadAssetForConsumerAtResolvedLocation(S, f, k, i) ==
  LET c == S.assets[k].consumers[i] IN
  IF ~ResolveAssetLoader(c.outputType)
  THEN ScheduleAssetUpdateTx(
         [S EXCEPT !.assets[k].consumers[i].state = "Failed",
                   !.assets[k].consumers[i].result = Err(ErrNoLoader)], f, k)
  ELSE LET S1 == [S EXCEPT !.assets[k].consumers[i].state = "Loading"]
           j == IF CanReuseLoadedAssets(c.outputType) THEN ReusableConsumer(S1, k, i) ELSE 0
       IN IF j # 0
          THEN LET h == S1.assets[k].consumers[j].handler
                   S2 == UpdateConsumerRequestHandler(S1, k, i, h)
               IN IF S2.handlers[h].lastLoadResult # NoResult
                  THEN ScheduleAssetUpdateTx(
                         [S2 EXCEPT !.assets[k].consumers[i] =
                                       OnConsumerLoad(@, S2.handlers[h].lastLoadResult)],
                         f, k)
                  ELSE S2
          ELSE LET h == Len(S1.handlers) + 1
                   S2 == [S1 EXCEPT !.handlers = Append(@, NewHandler(k, c)),
                                    !.assets[k].caches = @ \cup {c.outputType}]
               IN UpdateConsumerRequestHandler(S2, k, i, h)

(***************************************************************************)
(* The consumer state machine.                                             *)
(***************************************************************************)
RECURSIVE ScanConsumersRemovalFirst(_, _, _)
\* A faulty getNextConsumerToUpdate: on finding a second candidate the
\* consumer found first is returned, also when its observer was cleared.
ScanConsumersRemovalFirst(cs, i, cand) ==
  IF i > Len(cs) THEN [idx |-> cand, hasMore |-> FALSE]
  ELSE IF cs[i].observer = 0 /\ cand # 0
  THEN ScanConsumersRemovalFirst(cs, i + 1, cand)
  ELSE LET cand1 == IF cs[i].observer = 0 THEN i ELSE cand IN
       IF cs[i].notified THEN ScanConsumersRemovalFirst(cs, i + 1, cand1)
       ELSE IF cs[i].state \in {"Initial", "Failed", "Loaded"}
       THEN IF cand1 = 0
            THEN ScanConsumersRemovalFirst(cs, i + 1, i)
            ELSE [idx |-> cand1, hasMore |-> TRUE]
       ELSE ScanConsumersRemovalFirst(cs, i + 1, cand1)

RECURSIVE ScanConsumersLatest(_, _, _)
\* A faulty getNextConsumerToUpdate: on finding a second candidate that one
\* is returned, not the consumer found first.
ScanConsumersLatest(cs, i, cand) ==
  IF i > Len(cs) THEN [idx |-> cand, hasMore |-> FALSE]
  ELSE IF cs[i].observer = 0 /\ cand # 0
  THEN ScanConsumersLatest(cs, i + 1, cand)
  ELSE LET cand1 == IF cs[i].observer = 0 THEN i ELSE cand IN
       IF cs[i].notified THEN ScanConsumersLatest(cs, i + 1, cand1)
       ELSE IF cs[i].state \in {"Initial", "Failed", "Loaded"}
       THEN IF cand1 = 0
            THEN ScanConsumersLatest(cs, i + 1, i)
            ELSE [idx |-> i, hasMore |-> TRUE]
       ELSE ScanConsumersLatest(cs, i + 1, cand1)

RECURSIVE ScanConsumers(_, _, _)
\* The loop of getNextConsumerToUpdate from position i on, with
\* consumerToUpdate = cand (0 = nullptr).  Returns the position chosen and
\* the value left in hasMore.
ScanConsumers(cs, i, cand) ==
  IF i > Len(cs) THEN [idx |-> cand, hasMore |-> FALSE]
  ELSE IF cs[i].observer = 0 /\ cand # 0
  THEN ScanConsumers(cs, i + 1, cand)            \* hasMore = true; continue
  ELSE LET cand1 == IF cs[i].observer = 0 THEN i ELSE cand IN
       IF cs[i].notified THEN ScanConsumers(cs, i + 1, cand1)
       ELSE IF cs[i].state \in {"Initial", "Failed", "Loaded"}
       THEN IF cand1 = 0
            THEN ScanConsumers(cs, i + 1, i)
            ELSE [idx |-> IF cs[cand1].observer = 0 THEN i ELSE cand1, hasMore |-> TRUE]
       ELSE ScanConsumers(cs, i + 1, cand1)

\* getNextConsumerToUpdate
GetNextConsumerToUpdate(cs) == ScanConsumers(cs, 1, 0)

\* A faulty removeAssetConsumer: the consumer's request handler is not released.
RemoveAssetConsumerKeepsRequest(S, k, i) ==
  [S EXCEPT !.assets[k].consumers = RemoveAt(@, i)]

\* removeAssetConsumer
RemoveAssetConsumer(S, k, i) ==
  LET existing == S.assets[k].consumers[i].handler
      S1 == [S EXCEPT !.assets[k].consumers = RemoveAt(@, i)]
  IN ReleaseRequest(S1, existing)

\* A faulty notifyAssetConsumer: setNotified(true) is left out.
NotifyAssetConsumerUnmarked(S, f, k, i) ==
  LET c == S.assets[k].consumers[i] IN
  [S EXCEPT !.stack[f].pc = "notify",
            !.stack[f].nk = k,
            !.stack[f].nid = c.id,
            !.stack[f].res = c.result]

\* notifyAssetConsumer up to releasing the lock: the frame remembers the
\* consumer and the result it was called with.
NotifyAssetConsumer(S, f, k, i) ==
  LET c == S.assets[k].consumers[i] IN
  [S EXCEPT !.assets[k].consumers[i].notified = TRUE,
            !.stack[f].pc = "notify",
            !.stack[f].nk = k,
            !.stack[f].nid = c.id,
            !.stack[f].res = c.result]

\* doUpdateAssetConsumer
DoUpdateAssetConsumer(S, f, k, i) ==
  LET c == S.assets[k].consumers[i] IN
  IF c.observer = 0 THEN RemoveAssetConsumer(S, k, i)
  ELSE CASE c.state = "Initial" ->
              IF S.assets[k].state \in {"FailedRetryable", "FailedPermanently"}
              THEN ScheduleAssetUpdateTx(
                     [S EXCEPT !.assets[k].consumers[i].state = "Failed",
                               !.assets[k].consumers[i].result = LocError(S.assets[k].loc)],
                     f, k)
              ELSE LoadAssetForConsumerAtResolvedLocation(S, f, k, i)
         [] c.state = "Loading" -> RemoveAssetConsumer(S, k, i)
         [] c.state \in {"Failed", "Loaded"} -> NotifyAssetConsumer(S, f, k, i)
         [] OTHER -> S

\* updateAssetConsumers
UpdateAssetConsumers(S, f, k) ==
  LET next == GetNextConsumerToUpdate(S.assets[k].consumers) IN
  IF next.idx = 0 THEN S
  ELSE DoUpdateAssetConsumer(
         IF next.hasMore THEN ScheduleAssetUpdateTx(S, f, k) ELSE S, f, k, next.idx)

(***************************************************************************)
(* Location resolution.                                                    *)
(***************************************************************************)
\* ManagedAsset::getObservable(): the observable if it is still alive.
GetObservable(S, k) ==
  IF S.assets[k].observable \in S.liveObs[k] THEN S.assets[k].observable ELSE 0

\* A faulty updateAssetLocation: the asset becomes Ready whatever l is.
UpdateAssetLocationAlwaysReady(S, k, l) ==
  [S EXCEPT !.assets[k].state = "Ready", !.assets[k].loc = l]

\* updateAssetLocation with location or error l.
UpdateAssetLocation(S, k, l) ==
  IF LocIsOk(l)
  THEN [S EXCEPT !.assets[k].state = "Ready", !.assets[k].loc = l]
  ELSE [S EXCEPT !.assets[k].state = "FailedPermanently", !.assets[k].loc = l]

\* resolveAssetLocation
ResolveAssetLocation(S, f, k) ==
  LET resolveId == S.resolveSeq + 1
      S1 == [S EXCEPT !.assets[k].state = "ResolvingLocation",
                      !.assets[k].resolveId = resolveId,
                      !.resolveSeq = resolveId]
  IN IF ~IsURL(k)
     THEN [S1 EXCEPT !.stack[f].pc = "unlocked",
                     !.resolving = @ \cup {[key |-> k, id |-> resolveId]}]
     ELSE ScheduleAssetUpdateTx(UpdateAssetLocation(S1, k, "U"), f, k)

\* The condition of removeManagedAssetIfNeeded.
CanRemoveManagedAsset(S, k) ==
  /\ IsURL(k) \/ S.removeLocal
  /\ S.assets[k].consumers = <<>>
  /\ GetObservable(S, k) = 0

\* updateAsset
UpdateAsset(S, f, k) ==
  IF ~S.assets[k].present THEN S
  ELSE IF CanRemoveManagedAsset(S, k) THEN [S EXCEPT !.assets[k] = Absent]
  ELSE CASE S.assets[k].state = "Initial" ->
              IF S.assets[k].consumers # <<>> THEN ResolveAssetLocation(S, f, k) ELSE S
         [] S.assets[k].state = "ResolvingLocation" -> S
         [] OTHER -> UpdateAssetConsumers(S, f, k)

\* getOrCreateManagedAsset
GetOrCreateManagedAsset(S, k) ==
  IF S.assets[k].present THEN S ELSE [S EXCEPT !.assets[k] = NewManagedAsset]

(***************************************************************************)
(* The drain.                                                              *)
(***************************************************************************)
\* The end of performUpdates: no transaction is current any more and the
\* transaction (with its lock) is gone.
FinishUpdates(S, f) ==
  [S EXCEPT !.current = 0, !.stack = SubSeq(@, 1, f - 1)]

RECURSIVE DrainLoop(_, _)
\* The loop of performUpdates, run for as long as the transaction keeps the
\* lock: it stops where updateAsset released it ("notify", or "unlocked"
\* with updates left, which the loop takes up again by acquireLock).
DrainLoop(S, f) ==
  IF S.stack[f].q = <<>> THEN FinishUpdates(S, f)
  ELSE LET k == Head(S.stack[f].q)
           S1 == UpdateAsset([S EXCEPT !.stack[f].q = Tail(@), !.stack[f].pc = "run"], f, k)
       IN IF S1.stack[f].pc = "run" \/ (S1.stack[f].pc = "unlocked" /\ S1.stack[f].q = <<>>)
          THEN DrainLoop(S1, f)
          ELSE S1

\* A faulty performUpdates: the transaction takes over the first of the
\* _scheduledUpdates only and leaves the others where they are.
PerformUpdatesFirstOnly(S) ==
  DrainLoop([S EXCEPT !.stack = Append(@, DrainFrame(SubSeq(Dedup(S.scheduled), 1, 1))),
                      !.current = Len(S.stack) + 1,
                      !.scheduled = IF @ = <<>> THEN @ ELSE Tail(Dedup(@)),
                      !.drains = Bump(@)],
            Len(S.stack) + 1)

\* performUpdates: the transaction takes the lock, becomes current and takes
\* over _scheduledUpdates, then the loop runs.
PerformUpdates(S) ==
  DrainLoop([S EXCEPT !.stack = Append(@, DrainFrame(Dedup(S.scheduled))),
                      !.current = Len(S.stack) + 1,
                      !.scheduled = <<>>,
                      !.drains = Bump(@)],
            Len(S.stack) + 1)

\* AssetsManagerTransaction::current() as thread th sees it: the current
\* transaction belongs to the main thread.
CurrentTransaction(S, th) == IF th = "main" THEN S.current ELSE 0

\* A faulty scheduleAssetUpdate: _pauseUpdatesCount is not looked at.
ScheduleAssetUpdateIgnoresPause(S, k, th) ==
  IF CurrentTransaction(S, th) # 0
  THEN ScheduleAssetUpdateTx(S, CurrentTransaction(S, th), k)
  ELSE LET needScheduleUpdates == S.scheduled = <<>>
           S1 == [S EXCEPT !.scheduled = Append(@, k)]
       IN IF needScheduleUpdates
          THEN IF th = "main"
               THEN PerformUpdates(S1)
               ELSE [S1 EXCEPT !.dispatched = @ + 1]
          ELSE S1

\* A faulty scheduleAssetUpdate: while updates are paused the key is not
\* added to _scheduledUpdates.
ScheduleAssetUpdateNotWhilePaused(S, k, th) ==
  IF CurrentTransaction(S, th) # 0
  THEN ScheduleAssetUpdateTx(S, CurrentTransaction(S, th), k)
  ELSE IF S.pauseCount # 0 THEN S
  ELSE LET needScheduleUpdates == S.scheduled = <<>>
           S1 == [S EXCEPT !.scheduled = Append(@, k)]
       IN IF needScheduleUpdates
          THEN IF th = "main"
               THEN PerformUpdates(S1)
               ELSE [S1 EXCEPT !.dispatched = @ + 1]
          ELSE S1

\* scheduleAssetUpdate(lock, assetKey) called on thread th.
ScheduleAssetUpdate(S, k, th) ==
  IF CurrentTransaction(S, th) # 0
  THEN ScheduleAssetUpdateTx(S, CurrentTransaction(S, th), k)
  ELSE LET needScheduleUpdates == S.pauseCount = 0 /\ S.scheduled = <<>>
           S1 == [S EXCEPT !.scheduled = Append(@, k)]
       IN IF needScheduleUpdates
          THEN IF th = "main"
               THEN PerformUpdates(S1)
               ELSE [S1 EXCEPT !.dispatched = @ + 1]   \* schedulePerformUpdates
          ELSE S1

(***************************************************************************)
(* Public entry points.  th is the calling thread: "main" (the main        *)
(* thread, which can call when it is idle or from inside an observer's     *)
(* onLoad) or "other".                                                     *)
(***************************************************************************)
CanCall(th) ==
  /\ ~crashed
  /\ IF th # "main" \/ stack = <<>> THEN TRUE
     ELSE Top(Cur).t = "drain" /\ Top(Cur).pc = "cb"

\* The observer registered next: observers are registered in the order 1, 2, ...
NextObserver == Cardinality({o \in Observers : obsKey[o] # "-"}) + 1

\* addAssetLoadObserver
AddObserver(S, k, o, req, th) ==
  LET S1 == GetOrCreateManagedAsset(S, k)
      S2 == [S1 EXCEPT !.assets[k].consumers = Append(@, NewConsumer(o, req)),
                       !.assets[k].state = IF @ = "FailedRetryable" THEN "Initial" ELSE @,
                       !.obsKey[o] = k]
  IN ScheduleAssetUpdate(S2, k, th)

AddAssetLoadObserver(k, req, th) ==
  /\ CanCall(th)
  /\ NextObserver \in Observers
  /\ Commit(AddObserver(Cur, k, NextObserver, req, th))

\* removeAssetLoadObserver
RemoveObserver(S, k, o, th) ==
  IF ~S.assets[k].present THEN S
  ELSE LET cs == S.assets[k].consumers
           Match(i) == cs[i].observer = o
           S1 == IF \E i \in 1 .. Len(cs) : Match(i)
                 THEN LET i == CHOOSE i \in 1 .. Len(cs) :
                                 Match(i) /\ \A j \in 1 .. (i - 1) : ~Match(j)
                      IN [S EXCEPT !.assets[k].consumers[i].observer = 0]
                 ELSE S
       IN ScheduleAssetUpdate(S1, k, th)

RemoveAssetLoadObserver(o, th) ==
  /\ CanCall(th)
  /\ obsKey[o] # "-"
  /\ o \notin removedObs
  /\ Commit(RemoveObserver([Cur EXCEPT !.removedObs = @ \cup {o}], obsKey[o], o, th))

RECURSIVE ResetConsumersKeepState(_, _, _)
\* A faulty loop of setResolvedAssetLocation: setState(AssetConsumerStateInitial)
\* is left out.
ResetConsumersKeepState(S, k, i) ==
  IF i > Len(S.assets[k].consumers) THEN S
  ELSE LET S1 == [S EXCEPT !.assets[k].consumers[i].result = NoResult,
                           !.assets[k].consumers[i].notified = FALSE]
       IN ResetConsumersKeepState(UpdateConsumerRequestHandler(S1, k, i, 0), k, i + 1)

RECURSIVE ResetConsumers(_, _, _)
\* The loop of setResolvedAssetLocation over the consumers, from position i on.
ResetConsumers(S, k, i) ==
  IF i > Len(S.assets[k].consumers) THEN S
  ELSE LET S1 == [S EXCEPT !.assets[k].consumers[i].result = NoResult,
                           !.assets[k].consumers[i].state = "Initial",
                           !.assets[k].consumers[i].notified = FALSE]
       IN ResetConsumers(UpdateConsumerRequestHandler(S1, k, i, 0), k, i + 1)

\* A faulty setResolvedAssetLocation: the test for "nothing to do" is left out.
SetLocationAlways(S, k, l, th) ==
  LET S1 == GetOrCreateManagedAsset(S, k)
      S2 == IF S1.assets[k].state = "Ready" THEN ResetConsumers(S1, k, 1) ELSE S1
      S3 == [S2 EXCEPT !.assets[k].resolveId = 0,
                       !.assets[k].caches = {},
                       !.assets[k].loc = l,
                       !.assets[k].state = "Ready"]
  IN IF S3.assets[k].consumers # <<>> THEN ScheduleAssetUpdate(S3, k, th) ELSE S3

\* setResolvedAssetLocation
SetLocation(S, k, l, th) ==
  LET S1 == GetOrCreateManagedAsset(S, k) IN
  IF S1.assets[k].state = "Ready" /\ S1.assets[k].loc = l THEN S1
  ELSE LET S2 == IF S1.assets[k].state = "Ready" THEN ResetConsumers(S1, k, 1) ELSE S1
           S3 == [S2 EXCEPT !.assets[k].resolveId = 0,
                            !.assets[k].caches = {},
                            !.assets[k].loc = l,
                            !.assets[k].state = "Ready"]
       IN IF S3.assets[k].consumers # <<>> THEN ScheduleAssetUpdate(S3, k, th) ELSE S3

SetResolvedAssetLocation(k, l, th) ==
  /\ CanCall(th)
  /\ setLocCalls < MaxSetLoc
  /\ Commit(SetLocation([Cur EXCEPT !.setLocCalls = @ + 1], k, l, th))

\* createObservable and setObservable: observables are named 1, 2, ... in
\* the order of their creation.
CreateObservable(S, k) ==
  [S EXCEPT !.liveObs[k] = @ \cup {S.obsMade[k] + 1},
            !.obsMade[k] = @ + 1,
            !.assets[k].observable = S.obsMade[k] + 1]

\* A faulty lockFreeGetAsset: the observable the managed asset holds is not
\* looked up, a new one is created on every call.
LockFreeGetAssetAlwaysNew(S, k) == CreateObservable(GetOrCreateManagedAsset(S, k), k)

\* lockFreeGetAsset
LockFreeGetAsset(S, k) ==
  LET S1 == GetOrCreateManagedAsset(S, k) IN
  IF GetObservable(S1, k) # 0 THEN S1 ELSE CreateObservable(S1, k)

\* getAsset, from any thread.
GetAsset(k) ==
  /\ ~crashed
  /\ obsMade[k] < MaxObservables
  /\ Commit(LockFreeGetAsset(Cur, k))

\* onObservableDestroyed
OnObservableDestroyed(S, k, th) ==
  IF ~S.assets[k].present THEN S ELSE ScheduleAssetUpdate(S, k, th)

\* The last holder of observable id of key k drops it on thread th: the
\* observable dies and its destructor calls onObservableDestroyed.
DestroyObservable(k, id, th) ==
  /\ CanCall(th)
  /\ id \in liveObs[k]
  /\ Commit(OnObservableDestroyed([Cur EXCEPT !.liveObs[k] = @ \ {id}], k, th))

\* setShouldRemoveUnusedLocalAssets
SetShouldRemoveUnusedLocalAssets(b) ==
  /\ ~crashed
  /\ removeUnusedLocalAssets # b
  /\ Commit([Cur EXCEPT !.removeLocal = b])

(***************************************************************************)
(* Pause, flush, and the main thread's steps.                              *)
(***************************************************************************)
\* endPauseUpdates calls of the main thread that wait for their first drain.
EndPausesInProgress == Cardinality({i \in 1 .. Len(stack) : stack[i].t = "endPause"})

\* beginPauseUpdates, from any thread.
BeginPauseUpdates ==
  /\ ~crashed
  /\ pauseCalls < MaxPause
  /\ Commit([Cur EXCEPT !.pauseCount = @ + 1, !.pauseCalls = @ + 1])

\* A faulty endPauseUpdates: scheduleFlushLoadRequests is left out.
EndPauseTailNoFlush(S, th) ==
  LET S1 == [S EXCEPT !.pauseCount = @ - 1] IN
  IF S1.pauseCount # 0 THEN S1
  ELSE IF S1.scheduled = <<>> THEN S1
       ELSE IF th = "main" THEN PerformUpdates(S1)
       ELSE [S1 EXCEPT !.dispatched = @ + 1]

\* endPauseUpdates from the decrement on.
EndPauseTail(S, th) ==
  LET S1 == [S EXCEPT !.pauseCount = @ - 1] IN
  IF S1.pauseCount # 0 THEN S1
  ELSE LET S2 == ScheduleFlushLoadRequests(S1) IN
       IF S2.scheduled = <<>> THEN S2
       ELSE IF th = "main" THEN PerformUpdates(S2)
       ELSE [S2 EXCEPT !.dispatched = @ + 1]

\* endPauseUpdates: on the main thread, with one pause left and updates
\* queued, it first drains and then goes on (EndPauseResume).
EndPause(S, th) ==
  IF S.pauseCount = 1 /\ S.scheduled # <<>> /\ th = "main"
  THEN PerformUpdates([S EXCEPT !.stack = Append(@, EndPauseFrame)])
  ELSE EndPauseTail(S, th)

EndPauseUpdates(th) ==
  /\ CanCall(th)
  /\ pauseUpdatesCount - EndPausesInProgress > 0
  /\ Commit(EndPause(Cur, th))

\* endPauseUpdates after its first performUpdates returned: guard = lock().
EndPauseResume ==
  /\ ~crashed
  /\ stack # <<>>
  /\ Top(Cur).t = "endPause"
  /\ Commit(EndPauseTail([Cur EXCEPT !.stack = SubSeq(@, 1, Len(@) - 1)], "main"))

\* flushUpdates on the main thread (on another thread it returns at once).
FlushUpdates ==
  /\ CanCall("main")
  /\ scheduledUpdates # <<>>
  /\ Commit(PerformUpdates(Cur))

\* The main thread runs a closure dispatched by schedulePerformUpdates.
RunDispatched ==
  /\ ~crashed
  /\ stack = <<>>
  /\ dispatched > 0
  /\ Commit(PerformUpdates([Cur EXCEPT !.dispatched = @ - 1]))

\* A suspended drain goes on: the observer's onLoad returns, or the loop
\* takes the lock again after resolveAssetLocation released it.
DrainResume ==
  /\ ~crashed
  /\ stack # <<>>
  /\ Top(Cur).t = "drain"
  /\ Top(Cur).pc \in {"cb", "unlocked"}
  /\ Commit(DrainLoop(Cur, Len(stack)))

\* What onLoad delivers to observer o with result r.
Deliver(S, o, r) ==
  IF r.kind = "ok"
  THEN [S EXCEPT !.log[o].ok = Bump(@), !.log[o].art = r.a]
  ELSE [S EXCEPT !.log[o].err = Bump(@), !.log[o].e = r.a]

\* notifyAssetConsumer after releaseLock: assetConsumer->getObserver()->onLoad(...).
\* The observer is read now; a cleared observer is a null pointer call.
CallObserver(S, f) ==
  LET cs == S.assets[S.stack[f].nk].consumers
      i == ConsumerIndex(cs, S.stack[f].nid)
      o == IF i = 0 THEN 0 ELSE cs[i].observer
  IN IF o = 0 THEN [S EXCEPT !.crashed = TRUE]
     ELSE Deliver([S EXCEPT !.stack[f].pc = "cb"], o, S.stack[f].res)

NotifyCall ==
  /\ ~crashed
  /\ stack # <<>>
  /\ Top(Cur).pc = "notify"
  /\ Commit(CallObserver(Cur, Len(stack)))

(***************************************************************************)
(* Worker queue tasks and collaborators' completions.                      *)
(***************************************************************************)
\* A faulty completion of a resolution: the resolve id is not compared.
OnResolvedAnyId(S, r, l) ==
  LET k == r.key IN
  IF ~S.assets[k].present THEN S
  ELSE ScheduleAssetUpdate(
         IF l = "E1"
         THEN [S EXCEPT !.assets[k].state = "FailedRetryable", !.assets[k].loc = l]
         ELSE UpdateAssetLocation(S, k, l),
         k, "other")

\* onLoadingRemoteResourcesCompleted / resolveLocalAssetLocationAndUpdate for
\* the resolution r = [key, id]; l is what resolveRemoteAssetLocation /
\* resolveLocalAssetLocation returned ("E1": loadResources itself failed).
OnResolved(S, r, l) ==
  LET k == r.key IN
  IF ~S.assets[k].present \/ S.assets[k].resolveId # r.id THEN S
  ELSE ScheduleAssetUpdate(
         IF l = "E1"
         THEN [S EXCEPT !.assets[k].state = "FailedRetryable", !.assets[k].loc = l]
         ELSE UpdateAssetLocation(S, k, l),
         k, "other")

\* The results a resolution of key k can have.
ResolutionResults(k) == IF HasRemoteAssets(k) THEN {"L1", "ENF", "E1"} ELSE {"L1", "ENF"}

ResolveComplete(r, l) ==
  /\ ~crashed
  /\ r \in resolving
  /\ l \in ResolutionResults(r.key)
  /\ Commit(OnResolved([Cur EXCEPT !.resolving = @ \ {r}], r, l))

\* One turn of the loop of flushLoadRequests (the lock is held from the test
\* of the loop to the unlock before cancel() / startLoadIfNeeded()), or its
\* exit.
FlushOne(S) ==
  IF S.pending # <<>> /\ S.pauseCount = 0
  THEN LET h == Head(S.pending)
           S1 == [S EXCEPT !.pending = Tail(@)]
       IN IF S1.handlers[h].scheduledForCancelation
          THEN [S1 EXCEPT !.handlers[h].lastLoadResult = NoResult,
                          !.handlers[h].cancels = Bump(@)]
          ELSE [S1 EXCEPT !.handlers[h].starts = Bump(@),
                          !.handlers[h].load = IF @ = "idle" THEN "inflight" ELSE @]
  ELSE [S EXCEPT !.flushScheduled = FALSE]

FlushLoadRequests ==
  /\ ~crashed
  /\ pendingLoadRequestsScheduled
  /\ Commit(FlushOne(Cur))

RECURSIVE LoadConsumersAll(_, _, _, _)
\* A faulty loop of onLoad: the result is given to every consumer of the
\* asset, not only to those of the request.
LoadConsumersAll(cs, i, h, result) ==
  IF i > Len(cs) THEN cs
  ELSE LoadConsumersAll([cs EXCEPT ![i] = OnConsumerLoad(@, result)], i + 1, h, result)

RECURSIVE LoadConsumers(_, _, _, _)
\* The loop of onLoad over the consumers of the request h.
LoadConsumers(cs, i, h, result) ==
  IF i > Len(cs) THEN cs
  ELSE LoadConsumers(
         IF cs[i].handler = h THEN [cs EXCEPT ![i] = OnConsumerLoad(@, result)] ELSE cs,
         i + 1, h, result)

\* A faulty onLoad: the result of a request scheduled for cancelation is taken.
OnLoadOfCanceled(S, h, result) ==
  LET k == S.handlers[h].key IN
  IF ~S.assets[k].present THEN S
  ELSE ScheduleAssetUpdate(
         [S EXCEPT !.handlers[h].lastLoadResult = result,
                   !.assets[k].consumers = LoadConsumers(@, 1, h, result)],
         k, "other")

\* onLoad(request, result)
OnLoad(S, h, result) ==
  LET k == S.handlers[h].key IN
  IF ~S.assets[k].present \/ S.handlers[h].scheduledForCancelation THEN S
  ELSE ScheduleAssetUpdate(
         [S EXCEPT !.handlers[h].lastLoadResult = result,
                   !.assets[k].consumers = LoadConsumers(@, 1, h, result)],
         k, "other")

\* onLoad(request, ...) finds the managed asset gone or the request scheduled
\* for cancelation.
Gone(S, h) == ~S.assets[S.handlers[h].key].present \/ S.handlers[h].scheduledForCancelation

\* The loader of request h completes with result and calls onLoad.
LoadComplete(h, result) ==
  /\ ~crashed
  /\ h \in 1 .. Len(handlers)
  /\ handlers[h].load = "inflight"
  /\ Commit(OnLoad([Cur EXCEPT !.handlers[h].load =
                                  IF Gone(Cur, h) THEN "discarded" ELSE "done"],
                   h, result))

(***************************************************************************)
(* Initial state: the manager as constructed.                              *)
(***************************************************************************)
InitState ==
  [assets |-> [k \in AllKeys |-> Absent], handlers |-> <<>>, pending |-> <<>>,
   flushScheduled |-> FALSE, scheduled |-> <<>>, pauseCount |-> 0, resolveSeq |-> 0,
   removeLocal |-> FALSE, stack |-> <<>>, current |-> 0, dispatched |-> 0,
   resolving |-> {}, liveObs |-> [k \in AllKeys |-> {}],
   obsMade |-> [k \in AllKeys |-> 0],
   log |-> [o \in Observers |-> [ok |-> 0, err |-> 0, art |-> 0, e |-> 0]],
   obsKey |-> [o \in Observers |-> "-"], removedObs |-> {}, setLocCalls |-> 0,
   pauseCalls |-> 0, crashed |-> FALSE, drains |-> 0]

Init ==
  /\ assets = InitState.assets
  /\ handlers = InitState.handlers
  /\ pendingLoadRequests = InitState.pending
  /\ pendingLoadRequestsScheduled = InitState.flushScheduled
  /\ scheduledUpdates = InitState.scheduled
  /\ pauseUpdatesCount = InitState.pauseCount
  /\ assetResolveIdSequence = InitState.resolveSeq
  /\ removeUnusedLocalAssets = InitState.removeLocal
  /\ stack = InitState.stack
  /\ current = InitState.current
  /\ dispatched = InitState.dispatched
  /\ resolving = InitState.resolving
  /\ liveObs = InitState.liveObs
  /\ obsMade = InitState.obsMade
  /\ log = InitState.log
  /\ obsKey = InitState.obsKey
  /\ removedObs = InitState.removedObs
  /\ setLocCalls = InitState.setLocCalls
  /\ pauseCalls = InitState.pauseCalls
  /\ crashed = InitState.crashed
  /\ drains = InitState.drains
  /\ twin = InitState


(***************************************************************************)
(* The environment: who calls the manager, and with what.                  *)
(***************************************************************************)
Threads == {"main", "other"}
LoadResults(h) == {Artifact(h), NullArtifact, Err(ErrLoader)}
AllKinds == {"ok", "null", "err"}

\* (preferred width, preferred height, attached data, output type)
Img64 == [w |-> 64, h |-> 64, a |-> "x", t |-> "img"]
Img32 == [w |-> 32, h |-> 32, a |-> "x", t |-> "img"]
Raw64 == [w |-> 64, h |-> 64, a |-> "x", t |-> "raw"]
Requests == {Img64, Img32, Raw64}
Bad64 == [w |-> 64, h |-> 64, a |-> "x", t |-> "bad"]

\* The steps of the main thread's run loop.
MainThread ==
  \/ RunDispatched
  \/ DrainResume
  \/ NotifyCall

\* The loader of some request completes with a result of one of the kinds.
LoaderCompletes(kinds) ==
  \E h \in 1 .. Len(handlers) :
    \E res \in {r \in LoadResults(h) : r.kind \in kinds} : LoadComplete(h, res)

\* The worker queue's flush of the load requests, and the loaders.
Worker(kinds) ==
  \/ FlushLoadRequests
  \/ LoaderCompletes(kinds)

\* The resolution of a bundle asset's location completes.
Resolver == \E r \in resolving : \E l \in ResolutionResults(r.key) : ResolveComplete(r, l)

\* Observers are added to the keys K with the requests R.
Adds(K, R) == \E k \in K, req \in R, th \in Threads : AddAssetLoadObserver(k, req, th)

\* Observers are removed.
Removes == \E o \in Observers, th \in Threads : RemoveAssetLoadObserver(o, th)

\* setResolvedAssetLocation on the keys K with the locations L.
Relocate(K, L) == \E k \in K, l \in L, th \in Threads : SetResolvedAssetLocation(k, l, th)

\* The first setResolvedAssetLocation call, on the keys K with the locations L.
FirstRelocate(K, L) ==
  /\ setLocCalls = 0
  /\ Relocate(K, L)

\* Observables are fetched and dropped.
Observables(K) ==
  \/ \E k \in K : GetAsset(k)
  \/ \E k \in K, id \in 1 .. MaxObservables, th \in Threads : DestroyObservable(k, id, th)

\* Updates are paused, resumed and flushed.
Pause ==
  \/ BeginPauseUpdates
  \/ \E th \in Threads : EndPauseUpdates(th)
  \/ EndPauseResume
  \/ FlushUpdates

\* Nothing is left to do: no drain is running, dispatched or queued, no load
\* request waits for the flush, no resolution and no load is in flight.
Quiescent ==
  /\ ~crashed
  /\ stack = <<>>
  /\ dispatched = 0
  /\ scheduledUpdates = <<>>
  /\ pauseUpdatesCount = 0
  /\ pendingLoadRequests = <<>>
  /\ ~pendingLoadRequestsScheduled
  /\ resolving = {}
  /\ \A h \in 1 .. Len(handlers) : handlers[h].load # "inflight"

\* Observer o's onLoad has been called.
Notified(o) == log[o].ok + log[o].err > 0

(***************************************************************************)
(* FairSpec: a remote bundle asset with observers that come and go and     *)
(* updates that are paused and resumed, under the scheduling the code      *)
(* relies on: the main thread runs what was dispatched to it and returns   *)
(* from what it called, the worker queue runs its tasks, resolutions and   *)
(* loads complete, and a pause is ended.                                   *)
(***************************************************************************)
NextFair ==
  \/ MainThread
  \/ Worker(AllKinds)
  \/ Resolver
  \/ Adds({"rem"}, {Img64})
  \/ Removes
  \/ Pause

\* When the main thread can run a dispatched drain, resume a suspended drain,
\* go on in endPauseUpdates, and when some thread can call endPauseUpdates.
CanRunDispatched == ~crashed /\ stack = <<>> /\ dispatched > 0
CanDrainResume ==
  ~crashed /\ stack # <<>> /\ Top(Cur).t = "drain" /\ Top(Cur).pc \in {"cb", "unlocked"}
CanEndPauseResume == ~crashed /\ stack # <<>> /\ Top(Cur).t = "endPause"
CanEndPause == ~crashed /\ pauseUpdatesCount - EndPausesInProgress > 0

\* Weak fairness of every step of the main thread and of the worker queue,
\* of the collaborators' completions and of endPauseUpdates.  For the steps
\* that run a drain, WF_vars(A) is written out as
\* []<>~ENABLED <<A>>_vars \/ []<><<A>>_vars, with ENABLED as A's guard.
FairSpec ==
  /\ Init
  /\ [][NextFair]_vars
  /\ WF_vars(NotifyCall)
  /\ WF_vars(FlushLoadRequests)
  /\ WF_vars(LoaderCompletes(AllKinds))
  /\ WF_vars(Resolver)
  /\ ([]<>(~CanRunDispatched) \/ []<><<RunDispatched>>_vars)
  /\ ([]<>(~CanDrainResume) \/ []<><<DrainResume>>_vars)
  /\ ([]<>(~CanEndPauseResume) \/ []<><<EndPauseResume>>_vars)
  /\ ([]<>(~CanEndPause) \/ []<><<\E th \in Threads : EndPauseUpdates(th)>>_vars)

\* C1: every observer that was added and is never removed eventually has its
\* onLoad called, with a loaded artifact or with an error.
C1_EventuallyNotified ==
  \A o \in Observers : (obsKey[o] # "-") ~> (o \in removedObs \/ Notified(o))

(***************************************************************************)
(* SpecSingle: a URL asset with a single observer that stays, and a loader *)
(* that delivers an artifact; observables are fetched and dropped and      *)
(* updates are paused meanwhile.                                           *)
(***************************************************************************)
AddFirst(K, R) ==
  /\ NextObserver = 1
  /\ Adds(K, R)

NextSingle ==
  \/ MainThread
  \/ Worker({"ok"})
  \/ AddFirst({"url"}, Requests)
  \/ Observables({"url"})
  \/ Pause

SpecSingle == Init /\ [][NextSingle]_vars

\* C2: the single observer of a URL asset whose load completes with artifact
\* A is never given an error and is notified at most once, with A; once
\* nothing is left to do it has been notified and the asset is Ready.
C2_NotifiedOnce ==
  /\ log[1].err = 0
  /\ log[1].ok <= 1
  /\ log[1].ok = 1 => log[1].art = 1 /\ handlers[1].lastLoadResult = Artifact(1)
  /\ (Quiescent /\ obsKey[1] = "url") =>
       /\ log[1].ok = 1
       /\ assets["url"].present
       /\ assets["url"].state = "Ready"

\* The observer was notified with the artifact, the observable it was
\* notified with was dropped since, and nothing is left to do.
C2_Witness ==
  /\ Quiescent
  /\ log[1].ok = 1
  /\ log[1].art = 1
  /\ assets["url"].state = "Ready"
  /\ obsMade["url"] > 0
  /\ liveObs["url"] = {}

(***************************************************************************)
(* SpecRetry: observers are added to a remote bundle asset and stay.       *)
(***************************************************************************)
NextRetry ==
  \/ MainThread
  \/ Worker(AllKinds)
  \/ Resolver
  \/ Adds({"rem"}, {Img64})

SpecRetry == Init /\ [][NextRetry]_vars

\* The first observer was told that the fetch failed, and the retry that the
\* second observer started has given the second observer an artifact.
RetryDone ==
  /\ obsKey[1] = "rem"
  /\ obsKey[2] = "rem"
  /\ log[1].err > 0
  /\ log[1].e = ErrFetch
  /\ log[2].ok > 0

\* C3: after the first observer saw the fetch error E1 and the retry started
\* by adding a second observer succeeded, both observers have received the
\* artifact, each exactly once.
C3_RetryNotifiesBoth ==
  (Quiescent /\ RetryDone) =>
    /\ log[1].ok = 1
    /\ log[2].ok = 1
    /\ log[1].art = log[2].art

(***************************************************************************)
(* SpecCancel: the single observer of a URL asset is removed before its    *)
(* load completes.                                                         *)
(***************************************************************************)
RemoveBeforeLoad ==
  /\ \A h \in 1 .. Len(handlers) : handlers[h].load \in {"idle", "inflight"}
  /\ Removes

NextCancel ==
  \/ MainThread
  \/ Worker(AllKinds)
  \/ AddFirst({"url"}, Requests)
  \/ RemoveBeforeLoad
  \/ Pause

SpecCancel == Init /\ [][NextCancel]_vars

\* C4: when the only observer of a load request is removed before the load
\* completes, the handler's consumers count reaches 0, the handler is
\* scheduled for cancelation, cancel() is called on it exactly once, and the
\* observer is never notified of a success.
C4_CancelOnce ==
  /\ 1 \in removedObs => log[1].ok = 0
  /\ \A h \in 1 .. Len(handlers) :
       /\ handlers[h].consumersCount = 0 => handlers[h].scheduledForCancelation
       /\ handlers[h].cancels <= 1
       /\ (Quiescent /\ 1 \in removedObs) =>
            /\ handlers[h].consumersCount = 0
            /\ handlers[h].cancels = 1

(***************************************************************************)
(* Spec: a URL asset, observers with every kind of request that come and   *)
(* go, and relocation of the asset.                                        *)
(***************************************************************************)
Next ==
  \/ MainThread
  \/ Worker({"ok", "err"})
  \/ Adds({"url"}, Requests)
  \/ Removes
  \/ FirstRelocate({"url"}, {"L1"})

Spec == Init /\ [][Next]_vars

\* The output types of the consumers attached to request handler h.
HandlerOutputTypes(h) ==
  {assets[handlers[h].key].consumers[i].outputType :
     i \in {j \in 1 .. Len(assets[handlers[h].key].consumers) :
              assets[handlers[h].key].consumers[j].handler = h}}

\* Two request handlers of one asset with the same (width, height, attached data).
SameRequest(h1, h2) ==
  /\ handlers[h1].key = handlers[h2].key
  /\ handlers[h1].requestedWidth = handlers[h2].requestedWidth
  /\ handlers[h1].requestedHeight = handlers[h2].requestedHeight
  /\ handlers[h1].attachedData = handlers[h2].attachedData

\* Both observers are on the URL asset with the same request of a loader that
\* can reuse loaded assets, and nothing was removed or relocated.
TwoIdenticalObservers ==
  /\ removedObs = {}
  /\ setLocCalls = 0
  /\ Len(assets["url"].consumers) = 2
  /\ CanReuseLoadedAssets(assets["url"].consumers[1].outputType)
  /\ assets["url"].consumers[1].outputType = assets["url"].consumers[2].outputType
  /\ assets["url"].consumers[1].preferredWidth = assets["url"].consumers[2].preferredWidth
  /\ assets["url"].consumers[1].preferredHeight = assets["url"].consumers[2].preferredHeight
  /\ assets["url"].consumers[1].attachedData = assets["url"].consumers[2].attachedData

\* C5: of the request handlers of one asset that have consumers, no two have
\* the same (width, height, output type, attached data) when the loader of
\* the output type can reuse loaded assets; and two observers added with
\* identical requests make one request handler and receive the same artifact.
C5_ReuseCoalescing ==
  /\ \A h1, h2 \in 1 .. Len(handlers) :
       (/\ h1 # h2
        /\ handlers[h1].consumersCount > 0
        /\ handlers[h2].consumersCount > 0
        /\ SameRequest(h1, h2))
       => \A t \in HandlerOutputTypes(h1) \cap HandlerOutputTypes(h2) :
            ~CanReuseLoadedAssets(t)
  /\ TwoIdenticalObservers =>
       /\ Len(handlers) <= 1
       /\ (log[1].ok > 0 /\ log[2].ok > 0) => log[1].art = log[2].art

\* Two observers with identical requests share one request handler and both
\* were given its artifact.
C5_Witness ==
  /\ TwoIdenticalObservers
  /\ Len(handlers) = 1
  /\ handlers[1].consumersCount = 2
  /\ log[1].ok = 1
  /\ log[2].ok = 1
  /\ log[1].art = log[2].art

(***************************************************************************)
(* SpecResolve: bundle assets, remote and local, with observers that come  *)
(* and go, resolved by the worker and relocated by the caller.             *)
(***************************************************************************)
NextResolve ==
  \/ MainThread
  \/ Worker({"ok", "err"})
  \/ Resolver
  \/ Adds({"rem", "loc"}, {Img64})
  \/ Removes
  \/ FirstRelocate({"rem", "loc"}, {"L2"})

SpecResolve == Init /\ [][NextResolve]_vars

\* C6: a managed asset that is Ready has a resolved location that is a
\* location; one that is FailedRetryable or FailedPermanently has a resolved
\* location that is an error.
C6_LocationMatchesState ==
  \A k \in AllKeys :
    assets[k].present =>
      /\ assets[k].state = "Ready" => LocIsOk(assets[k].loc)
      /\ assets[k].state \in {"FailedRetryable", "FailedPermanently"} => LocIsErr(assets[k].loc)

\* The remote asset's fetch failed, its observer was told so, and the asset
\* was then given a location by setResolvedAssetLocation.
C6_Witness ==
  /\ log[1].e = ErrFetch
  /\ log[1].err > 0
  /\ setLocCalls = 1
  /\ assets["rem"].state = "Ready"
  /\ assets["rem"].loc = "L2"

(***************************************************************************)
(* SpecPause: a URL asset with observers that come and go while updates    *)
(* are paused, resumed and flushed.                                        *)
(***************************************************************************)
NextPause ==
  \/ MainThread
  \/ Worker({"ok", "err"})
  \/ Adds({"url"}, {Img64, Raw64})
  \/ Removes
  \/ Pause

SpecPause == Init /\ [][NextPause]_vars

\* C7: a request handler with no consumer is not in _pendingLoadRequests, or
\* is scheduled for cancelation.
C7_NoConsumersNoLoad ==
  \A h \in 1 .. Len(handlers) :
    handlers[h].consumersCount = 0 =>
      \/ h \notin Range(pendingLoadRequests)
      \/ handlers[h].scheduledForCancelation

\* A request handler lost its last consumer while updates were paused: it
\* waits in _pendingLoadRequests, scheduled for cancelation.
C7_Witness ==
  \E h \in 1 .. Len(handlers) :
    /\ handlers[h].consumersCount = 0
    /\ h \in Range(pendingLoadRequests)
    /\ handlers[h].scheduledForCancelation
    /\ pauseUpdatesCount > 0

\* C8: a consumer whose state is Loading has a request handler.
C8_LoadingHasHandler ==
  \A k \in AllKeys : \A i \in 1 .. Len(assets[k].consumers) :
    assets[k].consumers[i].state = "Loading" => assets[k].consumers[i].handler # 0

\* After setResolvedAssetLocation reset the consumers, one of them is Loading
\* again, with a new request handler, beside one attached to the same handler.
C8_Witness ==
  /\ setLocCalls = 1
  /\ Len(assets["url"].consumers) = 2
  /\ assets["url"].consumers[1].state = "Loading"
  /\ assets["url"].consumers[1].handler > 1
  /\ assets["url"].consumers[2].handler = assets["url"].consumers[1].handler

(***************************************************************************)
(* SpecObservable: a URL asset with observers that come and go and         *)
(* observables that are fetched and dropped.                               *)
(***************************************************************************)
NextObservable ==
  \/ MainThread
  \/ Worker(AllKinds)
  \/ Adds({"url"}, {Img64})
  \/ Removes
  \/ Observables({"url"})

SpecObservable == Init /\ [][NextObservable]_vars

\* C9: a key has at most one observable alive, and it is the one its managed
\* asset holds.
C9_OneObservable ==
  \A k \in AllKeys :
    /\ Cardinality(liveObs[k]) <= 1
    /\ liveObs[k] # {} => assets[k].present /\ liveObs[k] = {assets[k].observable}

\* The URL asset was erased after its first observable and its observer were
\* gone, and getAsset created the asset and an observable anew.
C9_Witness ==
  /\ liveObs["url"] = {2}
  /\ assets["url"].observable = 2
  /\ assets["url"].consumers = <<>>
  /\ assets["url"].state = "Initial"
  /\ 1 \in removedObs
  /\ obsKey[1] = "url"

(***************************************************************************)
(* SpecAddRemove: the single observer of a URL asset is added and, before  *)
(* it was notified, removed.                                               *)
(***************************************************************************)
RemoveUnnotified ==
  /\ \A o \in Observers : ~Notified(o)
  /\ Removes

NextAddRemove ==
  \/ MainThread
  \/ Worker(AllKinds)
  \/ AddFirst({"url"}, Requests)
  \/ RemoveUnnotified
  \/ Pause

SpecAddRemove == Init /\ [][NextAddRemove]_vars

\* C10: once an observer was added and removed and nothing is left to do, the
\* observer was never notified, no request handler has a consumer, and the
\* URL asset that the add created is in _assets no more.
C10_AddRemoveLeavesNothing ==
  /\ 1 \in removedObs => ~Notified(1)
  /\ (Quiescent /\ 1 \in removedObs) =>
       /\ \A h \in 1 .. Len(handlers) : handlers[h].consumersCount = 0
       /\ assets["url"].consumers = <<>>
       /\ ~assets["url"].present

(***************************************************************************)
(* SpecRelocate: a URL asset with observers that come and go, relocated    *)
(* more than once, to the URL it resolves to by itself and elsewhere.      *)
(***************************************************************************)
NextRelocate ==
  \/ MainThread
  \/ Worker({"ok", "err"})
  \/ Adds({"url"}, {Img64})
  \/ Removes
  \/ Relocate({"url"}, {"U", "L1"})

SpecRelocate == Init /\ [][NextRelocate]_vars

\* C11: a setResolvedAssetLocation(k, l) call made when the managed asset of
\* k is Ready with resolved location l changes nothing: the assets (state,
\* resolve id, payload caches, consumers), the request handlers, the pending
\* load requests, the scheduled updates and the drains stay as they are.
C11_SameLocationNoOp ==
  [][\A k \in AllKeys, l \in LocValues, th \in Threads :
       (/\ assets[k].present
        /\ assets[k].state = "Ready"
        /\ assets[k].loc = l
        /\ SetResolvedAssetLocation(k, l, th))
       => UNCHANGED <<assets, handlers, pendingLoadRequests,
                      pendingLoadRequestsScheduled, scheduledUpdates,
                      assetResolveIdSequence, stack, current, dispatched,
                      resolving, log>>]_vars

\* The URL asset resolved to its URL and its observer's load was started;
\* setResolvedAssetLocation was then called twice with that URL, and the
\* consumer is still loading with the request handler it had.
C11_Witness ==
  /\ setLocCalls = 2
  /\ removedObs = {}
  /\ assets["url"].state = "Ready"
  /\ assets["url"].loc = "U"
  /\ assets["url"].resolveId # 0
  /\ Len(assets["url"].consumers) = 1
  /\ assets["url"].consumers[1].state = "Loading"
  /\ assets["url"].consumers[1].handler = 1
  /\ handlers[1].load = "inflight"

(***************************************************************************)
(* SpecTwin: two managers are given the same addAssetLoadObserver and      *)
(* removeAssetLoadObserver calls, one after the other on the main thread.  *)
(* The first manager is given them between beginPauseUpdates and           *)
(* endPauseUpdates, the second (twin) without pauses.  Each manager has    *)
(* its own main thread, worker queue and loaders; every load succeeds.     *)
(***************************************************************************)
\* Nothing is left to do in manager S.
Settled(S) ==
  /\ ~S.crashed
  /\ S.stack = <<>>
  /\ S.dispatched = 0
  /\ S.scheduled = <<>>
  /\ S.pauseCount = 0
  /\ S.pending = <<>>
  /\ ~S.flushScheduled
  /\ S.resolving = {}
  /\ \A h \in 1 .. Len(S.handlers) : S.handlers[h].load # "inflight"

\* The calls are being made: the first manager is paused and both main
\* threads have returned from the call before.
CallsOpen ==
  /\ ~crashed
  /\ ~twin.crashed
  /\ pauseUpdatesCount > 0
  /\ stack = <<>>
  /\ twin.stack = <<>>

\* The calls were made and the first manager's pause is over.
CallsMade == pauseCalls > 0 /\ pauseUpdatesCount = 0

\* addAssetLoadObserver on both managers.
BothAdd(k, req) ==
  /\ CallsOpen
  /\ NextObserver \in Observers
  /\ CommitVars(AddObserver(Cur, k, NextObserver, req, "main"))
  /\ twin' = AddObserver(twin, k, NextObserver, req, "main")

\* removeAssetLoadObserver on both managers.
BothRemove(o) ==
  /\ CallsOpen
  /\ obsKey[o] # "-"
  /\ o \notin removedObs
  /\ CommitVars(RemoveObserver([Cur EXCEPT !.removedObs = @ \cup {o}], obsKey[o], o, "main"))
  /\ twin' = RemoveObserver([twin EXCEPT !.removedObs = @ \cup {o}], obsKey[o], o, "main")

\* NotifyCall of the second manager.
TwinNotifyCall ==
  /\ ~twin.crashed
  /\ twin.stack # <<>>
  /\ Top(twin).pc = "notify"
  /\ twin' = CallObserver(twin, Len(twin.stack))
  /\ CommitVars(Cur)

\* DrainResume of the second manager.
TwinDrainResume ==
  /\ ~twin.crashed
  /\ twin.stack # <<>>
  /\ Top(twin).t = "drain"
  /\ Top(twin).pc \in {"cb", "unlocked"}
  /\ twin' = DrainLoop(twin, Len(twin.stack))
  /\ CommitVars(Cur)

\* RunDispatched of the second manager.
TwinRunDispatched ==
  /\ ~twin.crashed
  /\ twin.stack = <<>>
  /\ twin.dispatched > 0
  /\ twin' = PerformUpdates([twin EXCEPT !.dispatched = @ - 1])
  /\ CommitVars(Cur)

\* FlushLoadRequests of the second manager.
TwinFlushLoadRequests ==
  /\ ~twin.crashed
  /\ twin.flushScheduled
  /\ twin' = FlushOne(twin)
  /\ CommitVars(Cur)

\* LoadComplete of the second manager: request h is loaded.
TwinLoadComplete(h) ==
  /\ ~twin.crashed
  /\ h \in 1 .. Len(twin.handlers)
  /\ twin.handlers[h].load = "inflight"
  /\ twin' = OnLoad([twin EXCEPT !.handlers[h].load = "done"], h, Artifact(h))
  /\ CommitVars(Cur)

NextTwin ==
  \/ MainThread
  \/ Worker({"ok"})
  \/ BeginPauseUpdates
  \/ \E th \in Threads : EndPauseUpdates(th)
  \/ EndPauseResume
  \/ \E req \in {Img64, Bad64} : BothAdd("url", req)
  \/ \E o \in Observers : BothRemove(o)
  \/ TwinNotifyCall
  \/ TwinDrainResume
  \/ TwinRunDispatched
  \/ TwinFlushLoadRequests
  \/ \E h \in 1 .. Len(twin.handlers) : TwinLoadComplete(h)

SpecTwin == Init /\ [][NextTwin]_vars

\* What an observer received: an artifact, an error (and which), or nothing.
Outcome(l) == [ok |-> l.ok > 0, err |-> l.err > 0, e |-> l.e]

\* C12: once nothing is left to do in either manager, every observer has
\* received from the manager that was paused while the calls were made what
\* it received from the manager that was not.
C12_PausedSameAsUnpaused ==
  (CallsMade /\ Quiescent /\ Settled(twin)) =>
    \A o \in Observers : Outcome(log[o]) = Outcome(twin.log[o])

\* C12 (amended): once nothing is left to do in either manager, every
\* observer that the calls left registered has received from the manager
\* that was paused while the calls were made what it received from the
\* manager that was not.
C12_SameForRegistered ==
  (CallsMade /\ Quiescent /\ Settled(twin)) =>
    \A o \in Observers \ removedObs : Outcome(log[o]) = Outcome(twin.log[o])

\* Two observers were added and the first removed; the second received the
\* artifact from both managers, the first its error from the second manager
\* only.
C12_Witness ==
  /\ CallsMade
  /\ Quiescent
  /\ Settled(twin)
  /\ removedObs = {1}
  /\ log[2].ok = 1
  /\ twin.log[2].ok = 1
  /\ log[1].err = 0
  /\ twin.log[1].err = 1

(***************************************************************************)
(* SpecBatch: updates are paused once; while they are, observers are added *)
(* to keys that have no observer yet, with requests that have a loader or  *)
(* none; endPauseUpdates is called on the main thread and nothing drains   *)
(* before it.                                                              *)
(***************************************************************************)
FirstPause ==
  /\ pauseCalls = 0
  /\ BeginPauseUpdates

AddOnNewKey(K, R) ==
  \E k \in K :
    /\ pauseUpdatesCount > 0
    /\ EndPausesInProgress = 0
    /\ \A o \in Observers : obsKey[o] # k
    /\ Adds({k}, R)

NextBatch ==
  \/ MainThread
  \/ Worker(AllKinds)
  \/ Resolver
  \/ FirstPause
  \/ AddOnNewKey(AllKeys, {Img64, Bad64})
  \/ EndPauseUpdates("main")
  \/ EndPauseResume

SpecBatch == Init /\ [][NextBatch]_vars

\* The observers that were added.
Added == {o \in Observers : obsKey[o] # "-"}

\* The number of onLoad calls observer o received (0, 1, 2 or more).
Notifications(o) == log[o].ok + log[o].err

\* C13: after beginPauseUpdates, observers added on different keys and
\* endPauseUpdates on the main thread, once nothing is left to do
\* performUpdates has run exactly once and each observer was notified
\* exactly once.
C13_OneDrainNotifiesAll ==
  (Quiescent /\ Added # {}) =>
    /\ drains = 1
    /\ \A o \in Added : Notifications(o) = 1

\* C13 (amended): nothing drains while updates are paused; endPauseUpdates
\* runs one performUpdates whose transaction takes up every key that was
\* queued (what is queued meanwhile comes from the resolution of a bundle
\* asset that it started), so that when it returns every key's asset has
\* left its Initial state; no observer is notified twice, and once nothing
\* is left to do each observer was notified exactly once.
C13_OneDrainTakesAll ==
  /\ (pauseUpdatesCount > 0 /\ EndPausesInProgress = 0) => drains = 0
  /\ (stack # <<>> /\ stack[1].t = "endPause") =>
       /\ drains = 1
       /\ \A k \in Range(scheduledUpdates) : ~IsURL(k)
       /\ \A o \in Added :
            \/ Len(stack) > 1 /\ obsKey[o] \in Range(stack[2].q)
            \/ assets[obsKey[o]].state # "Initial"
  /\ (stack = <<>> /\ pauseUpdatesCount = 0) =>
       \A o \in Added : assets[obsKey[o]].present /\ assets[obsKey[o]].state # "Initial"
  /\ \A o \in Added : Notifications(o) <= 1
  /\ Quiescent => \A o \in Added : Notifications(o) = 1

\* Two observers on two keys were each notified once, and more than one
\* performUpdates has run.
C13_Witness ==
  /\ Quiescent
  /\ Added = {1, 2}
  /\ obsKey[1] # obsKey[2]
  /\ Notifications(1) = 1
  /\ Notifications(2) = 1
  /\ drains = 2

\* C14: in a step taken while _pauseUpdatesCount is positive no
\* performUpdates is started (so that updateAsset is not called).
C14_NoDrainWhilePaused == [][pauseUpdatesCount > 0 => drains' = drains]_vars

\* The step starts no performUpdates and dispatches none.
NoDrainStarted ==
  /\ drains' = drains
  /\ dispatched' = dispatched
  /\ stack' = stack

\* C14 (amended): while _pauseUpdatesCount is positive, addAssetLoadObserver
\* and removeAssetLoadObserver called outside of a transaction only append
\* their key to _scheduledUpdates: they start no performUpdates and dispatch
\* none.
C14_PausedMutationsOnlyQueue ==
  [][pauseUpdatesCount > 0 =>
       /\ \A k \in AllKeys, req \in Requests, th \in Threads :
            (CurrentTransaction(Cur, th) = 0 /\ AddAssetLoadObserver(k, req, th))
            => (NoDrainStarted /\ scheduledUpdates' = Append(scheduledUpdates, k))
       /\ \A o \in Observers, th \in Threads :
            (/\ CurrentTransaction(Cur, th) = 0
             /\ obsKey[o] # "-"
             /\ assets[obsKey[o]].present
             /\ RemoveAssetLoadObserver(o, th))
            => (NoDrainStarted /\ scheduledUpdates' = Append(scheduledUpdates, obsKey[o]))]_vars

\* An observer was added and removed while updates were paused: the key was
\* queued by both calls and the consumer is as it was created, its observer
\* cleared.
C14_Witness ==
  /\ pauseUpdatesCount > 0
  /\ drains = 0
  /\ dispatched = 0
  /\ stack = <<>>
  /\ scheduledUpdates = <<"url", "url">>
  /\ removedObs = {1}
  /\ Len(assets["url"].consumers) = 1
  /\ assets["url"].consumers[1].observer = 0
  /\ assets["url"].consumers[1].state = "Initial"
  /\ assets["url"].state = "Initial"

\* C15: a setResolvedAssetLocation(k, l) call, unless the asset is Ready at
\* l already, resets every consumer of k whatever the asset's state was:
\* when it returns (or the drain it ran inline stops) each consumer has an
\* empty result, is not notified, and is Initial or loading from l.
C15_RelocateResetsConsumers ==
  [][\A k \in AllKeys, l \in LocValues, th \in Threads :
       (/\ setLocCalls' = setLocCalls + 1
        /\ ~(assets[k].present /\ assets[k].state = "Ready" /\ assets[k].loc = l)
        /\ SetResolvedAssetLocation(k, l, th))
       => \A i \in 1 .. Len(assets'[k].consumers) :
            /\ assets'[k].consumers[i].result = NoResult
            /\ ~assets'[k].consumers[i].notified
            /\ assets'[k].consumers[i].state \in {"Initial", "Loading"}]_vars

(***************************************************************************)
(* SpecLocalMiss: observers are added to an asset of a local bundle that   *)
(* the ResourceLoader does not find (resolveLocalAssetURL returns an empty *)
(* URL), while updates are paused, resumed and flushed.                    *)
(***************************************************************************)
ResolveMiss == \E r \in resolving : ResolveComplete(r, "ENF")

NextLocalMiss ==
  \/ MainThread
  \/ ResolveMiss
  \/ Adds({"loc"}, {Img64, Raw64, Bad64})
  \/ Pause

SpecLocalMiss == Init /\ [][NextLocalMiss]_vars

\* C16: the asset of a local bundle that is not found is never Ready and no
\* request handler is ever created for it; its observers receive no
\* artifact and no error but "Did not find asset"; once nothing is left to
\* do the asset is FailedPermanently and every observer that was added,
\* before the failure or after it, has received that error.
C16_LocalMiss ==
  /\ handlers = <<>>
  /\ assets["loc"].present =>
       assets["loc"].state \in {"Initial", "ResolvingLocation", "FailedPermanently"}
  /\ \A o \in Observers :
       /\ log[o].ok = 0
       /\ log[o].err > 0 => log[o].e = ErrNotFound
  /\ (Quiescent /\ Added # {}) =>
       /\ assets["loc"].state = "FailedPermanently"
       /\ \A o \in Added : log[o].err = 1

\* The first observer was told that the asset was not found; the second was
\* added to the asset after, and was told so too without a new resolution.
C16_Witness ==
  /\ Quiescent
  /\ Added = {1, 2}
  /\ assets["loc"].state = "FailedPermanently"
  /\ assetResolveIdSequence = 1
  /\ log[1].err = 1
  /\ log[2].err = 1
  /\ log[2].e = ErrNotFound
  /\ assets["loc"].consumers[2].outputType = "img"
  /\ assets["loc"].consumers[2].handler = 0

(***************************************************************************)
(* getNextConsumerToUpdate on the consumer lists that SpecObservable       *)
(* reaches.                                                                *)
(***************************************************************************)
\* Consumer c is a candidate by its state: not notified and Initial, Failed
\* or Loaded.
CandidateState(c) == ~c.notified /\ c.state \in {"Initial", "Failed", "Loaded"}

\* In the list cs the first consumer that is cleared or a candidate is the
\* cleared consumer at i, and a candidate that has its observer is at j,
\* after i.
ClearedBeforeCandidate(cs, i, j) ==
  /\ i < j
  /\ cs[i].observer = 0
  /\ \A m \in 1 .. (i - 1) : cs[m].observer # 0 /\ ~CandidateState(cs[m])
  /\ cs[j].observer # 0
  /\ CandidateState(cs[j])

\* C17: when a cleared consumer comes first and a candidate that has its
\* observer comes later in the list, getNextConsumerToUpdate returns the
\* cleared consumer.
C17_RemovalFirst ==
  \A k \in AllKeys : \A i, j \in 1 .. Len(assets[k].consumers) :
    ClearedBeforeCandidate(assets[k].consumers, i, j) =>
      GetNextConsumerToUpdate(assets[k].consumers).idx = i

\* C17 (amended): when a cleared consumer comes first and a candidate that
\* has its observer comes later in the list, getNextConsumerToUpdate returns
\* the cleared consumer only if it is itself a candidate by its state;
\* otherwise (it is notified, or Loading) the first such later candidate is
\* returned, and the cleared consumer is left for a later step.  hasMore is
\* set either way.
C17_CandidateBeforeRemoval ==
  \A k \in AllKeys : \A i, j \in 1 .. Len(assets[k].consumers) :
    LET cs == assets[k].consumers IN
    (/\ ClearedBeforeCandidate(cs, i, j)
     /\ \A m \in (i + 1) .. (j - 1) : cs[m].observer = 0 \/ ~CandidateState(cs[m]))
    => /\ GetNextConsumerToUpdate(cs).hasMore
       /\ GetNextConsumerToUpdate(cs).idx = IF CandidateState(cs[i]) THEN i ELSE j

\* A consumer that was notified and then had its observer cleared is
\* followed by a consumer to load: the latter is the one returned.
C17_Witness ==
  /\ Len(assets["url"].consumers) = 2
  /\ assets["url"].consumers[1].observer = 0
  /\ assets["url"].consumers[1].notified
  /\ assets["url"].consumers[2].observer = 2
  /\ assets["url"].consumers[2].state = "Initial"
  /\ GetNextConsumerToUpdate(assets["url"].consumers) = [idx |-> 2, hasMore |-> TRUE]

\* Consumer c has its observer and is a candidate by its state.
LiveCandidate(c) == c.observer # 0 /\ CandidateState(c)

\* Consumer c has its observer and a result to be notified of.
ReadyToNotify(c) == c.observer # 0 /\ ~c.notified /\ c.state \in {"Failed", "Loaded"}

\* When the list has candidates with an observer, getNextConsumerToUpdate
\* returns a consumer, and if that one has an observer it is the first of them.
EarliestIsNext ==
  \A k \in AllKeys :
    LET cs == assets[k].consumers
        next == GetNextConsumerToUpdate(cs)
    IN (\E i \in 1 .. Len(cs) : LiveCandidate(cs[i])) =>
         /\ next.idx # 0
         /\ cs[next.idx].observer # 0 =>
              /\ LiveCandidate(cs[next.idx])
              /\ \A m \in 1 .. (next.idx - 1) : ~LiveCandidate(cs[m])

\* Of two consumers that are both ready to be notified, no step marks the
\* later one notified while the earlier one keeps its observer and is not
\* notified.
NotifiedInOrder ==
  \A k \in AllKeys : \A i, j \in 1 .. Len(assets[k].consumers) :
    LET cs == assets[k].consumers
        i1 == ConsumerIndex(assets'[k].consumers, cs[i].id)
        j1 == ConsumerIndex(assets'[k].consumers, cs[j].id)
    IN (i < j /\ ReadyToNotify(cs[i]) /\ ReadyToNotify(cs[j])) =>
         ((j1 # 0 /\ assets'[k].consumers[j1].notified) =>
            \/ i1 = 0
            \/ assets'[k].consumers[i1].observer = 0
            \/ assets'[k].consumers[i1].notified)

\* C18: of the consumers of a key that have an observer and are candidates,
\* an update step advances the one added first, and two consumers that are
\* ready to be notified together are notified in the order they were added.
C18_InsertionOrder == []EarliestIsNext /\ [][NotifiedInOrder]_vars

\* Two consumers were loaded by the same request and the first is being
\* notified while the second, loaded too, waits for its turn.
C18_Witness ==
  /\ Len(assets["url"].consumers) = 2
  /\ stack # <<>>
  /\ stack[Len(stack)].pc = "notify"
  /\ stack[Len(stack)].nid = 1
  /\ assets["url"].consumers[1].notified
  /\ assets["url"].consumers[1].handler = assets["url"].consumers[2].handler
  /\ assets["url"].consumers[2].observer = 2
  /\ assets["url"].consumers[2].state = "Loaded"
  /\ ~assets["url"].consumers[2].notified
  /\ \A o \in Observers : ~Notified(o)

(***************************************************************************)
(* SpecErrors: observers are added to a URL asset with requests that have  *)
(* a loader or none, and the loaders deliver an artifact, a null artifact  *)
(* or an error; updates are paused, resumed and flushed meanwhile.         *)
(***************************************************************************)
NextErrors ==
  \/ MainThread
  \/ Worker(AllKinds)
  \/ Adds({"url"}, {Img64, Raw64, Bad64})
  \/ Pause

SpecErrors == Init /\ [][NextErrors]_vars

\* What a consumer holds after onConsumerLoad was given result r.
ConsumerResult(r) == IF r.kind = "null" THEN Err(ErrNullAsset) ELSE r

\* The consumer c has the outcome of its own request: nothing yet, the error
\* of having no loader, or what its own request handler was loaded with; it
\* is Failed exactly when that is an error and Loaded when it is an artifact.
OwnOutcome(c) ==
  /\ IF ~ResolveAssetLoader(c.outputType)
     THEN c.handler = 0 /\ c.result \in {NoResult, Err(ErrNoLoader)}
     ELSE \/ c.result = NoResult
          \/ c.handler # 0 /\ c.result = ConsumerResult(handlers[c.handler].lastLoadResult)
  /\ c.state = "Failed" <=> c.result.kind = "err"
  /\ c.state = "Loaded" <=> c.result.kind = "ok"

\* What observer o was given is what its consumer c holds.
GivenOwnOutcome(o, c) ==
  /\ log[o].ok > 0 => c.result = Artifact(log[o].art)
  /\ log[o].err > 0 => c.result = Err(log[o].e)
  /\ log[o].ok + log[o].err <= 1

\* The asset is not failed by its consumers' errors, every consumer has the
\* outcome of its own request and every observer was given its consumer's;
\* once nothing is left to do every observer was notified.
ErrorsArePerConsumer ==
  /\ assets["url"].present =>
       /\ assets["url"].state \in {"Initial", "Ready"}
       /\ assets["url"].state = "Ready" => assets["url"].loc = "U"
  /\ \A i \in 1 .. Len(assets["url"].consumers) :
       /\ OwnOutcome(assets["url"].consumers[i])
       /\ GivenOwnOutcome(assets["url"].consumers[i].observer, assets["url"].consumers[i])
  /\ Quiescent => \A o \in Added : Notifications(o) = 1

\* The completion of request h leaves the asset and the consumers of its
\* other requests as they are.
LoadTouchesOwnConsumers ==
  \A h \in 1 .. Len(handlers) : \A res \in LoadResults(h) :
    LoadComplete(h, res) =>
      /\ assets'["url"].state = assets["url"].state
      /\ assets'["url"].loc = assets["url"].loc
      /\ Len(assets'["url"].consumers) = Len(assets["url"].consumers)
      /\ \A i \in 1 .. Len(assets["url"].consumers) :
           assets["url"].consumers[i].handler # h =>
             assets'["url"].consumers[i] = assets["url"].consumers[i]

\* C19: when a consumer has no loader, or its loader returns null or an
\* error, that consumer alone becomes Failed and is notified of the error;
\* the asset stays Ready at its location and the consumers of its other
\* requests keep their state and result and are notified of their own
\* outcome.
C19_ErrorsArePerConsumer == []ErrorsArePerConsumer /\ [][LoadTouchesOwnConsumers]_vars

\* The first observer's load failed and the second's, of another request,
\* succeeded: each was notified of its own and the asset is Ready.
C19_Witness ==
  /\ Quiescent
  /\ assets["url"].state = "Ready"
  /\ Len(assets["url"].consumers) = 2
  /\ assets["url"].consumers[1].state = "Failed"
  /\ assets["url"].consumers[1].result = Err(ErrLoader)
  /\ assets["url"].consumers[2].state = "Loaded"
  /\ log[1].err = 1
  /\ log[1].e = ErrLoader
  /\ log[2].ok = 1
  /\ log[2].art = assets["url"].consumers[2].handler

(***************************************************************************)
(* SpecStale: a remote bundle asset with observers that come and go, that  *)
(* is relocated and, when setShouldRemoveUnusedLocalAssets allows it,      *)
(* erased while its resolution is in flight.                               *)
(***************************************************************************)
NextStale ==
  \/ MainThread
  \/ Worker({"ok"})
  \/ Resolver
  \/ Adds({"rem"}, {Img64})
  \/ Removes
  \/ FirstRelocate({"rem"}, {"L2"})
  \/ \E b \in BOOLEAN : SetShouldRemoveUnusedLocalAssets(b)

SpecStale == Init /\ [][NextStale]_vars

\* The completion of resolution r finds its asset erased or with another
\* resolve id.
Stale(r) == ~assets[r.key].present \/ assets[r.key].resolveId # r.id

\* C20: the completion of a resolution whose asset was erased or has another
\* resolve id changes nothing: the assets, the scheduled and dispatched
\* updates, the drains, the request handlers and the notifications stay as
\* they are; a completion that is applied finds its asset in state
\* ResolvingLocation and ends that state.
C20_StaleCompletionDropped ==
  [][\A r \in resolving : \A l \in ResolutionResults(r.key) :
       ResolveComplete(r, l) =>
         IF Stale(r)
         THEN UNCHANGED <<assets, handlers, pendingLoadRequests,
                          pendingLoadRequestsScheduled, scheduledUpdates,
                          dispatched, stack, current, drains, log>>
         ELSE /\ assets[r.key].state = "ResolvingLocation"
              /\ assets'[r.key].state \in {"Ready", "FailedRetryable", "FailedPermanently"}]_vars

\* The asset was given a location by setResolvedAssetLocation while its
\* resolution was in flight, and the completion of the resolution was
\* dropped: the asset is Ready at that location and the one update that
\* setResolvedAssetLocation scheduled waits to be run.
C20_Witness ==
  /\ resolving = {}
  /\ assetResolveIdSequence = 1
  /\ setLocCalls = 1
  /\ assets["rem"].state = "Ready"
  /\ assets["rem"].loc = "L2"
  /\ assets["rem"].resolveId = 0
  /\ Len(assets["rem"].consumers) = 1
  /\ assets["rem"].consumers[1].state = "Initial"
  /\ scheduledUpdates = <<"rem">>
  /\ dispatched = 1
  /\ drains = 1
  /\ stack = <<>>

(***************************************************************************)
(* SpecDiscard: a URL asset whose observers come and go and that is        *)
(* relocated while its loads are in flight; every load delivers the        *)
(* artifact of its request.                                                *)
(***************************************************************************)
NextDiscard ==
  \/ MainThread
  \/ Worker({"ok"})
  \/ Adds({"url"}, {Img64, Raw64})
  \/ Removes
  \/ FirstRelocate({"url"}, {"L1"})

SpecDiscard == Init /\ [][NextDiscard]_vars

\* The artifact of request h is held by nobody: not by the request, not by a
\* consumer, not by a notification under way, and no observer was given it.
HeldByNobody(h) ==
  /\ handlers[h].lastLoadResult # Artifact(h)
  /\ \A k \in AllKeys : \A i \in 1 .. Len(assets[k].consumers) :
       assets[k].consumers[i].result # Artifact(h)
  /\ \A f \in 1 .. Len(stack) : stack[f].res # Artifact(h)
  /\ \A o \in Observers : ~(log[o].ok > 0 /\ log[o].art = h)

\* The result of a load that onLoad discarded is held by nobody.
DiscardedIsLost ==
  \A h \in 1 .. Len(handlers) : handlers[h].load = "discarded" => HeldByNobody(h)

\* A load completion that finds its request scheduled for cancelation or its
\* managed asset gone changes nothing but the loader's own state.
DiscardChangesNothing ==
  \A h \in 1 .. Len(handlers) :
    (LoadComplete(h, Artifact(h)) /\ Gone(Cur, h)) =>
      /\ handlers'[h].lastLoadResult = handlers[h].lastLoadResult
      /\ UNCHANGED <<assets, pendingLoadRequests, pendingLoadRequestsScheduled,
                     scheduledUpdates, dispatched, stack, current, drains, log>>

\* C21: a load completion whose request is scheduled for cancelation or whose
\* managed asset is gone is discarded: the request's last load result is not
\* set, no consumer changes, no update is scheduled or dispatched, and the
\* result never reaches a consumer or an observer.
C21_CanceledLoadDiscarded == []DiscardedIsLost /\ [][DiscardChangesNothing]_vars

\* The load of the first observer's request was discarded after the observer
\* was removed, and a second observer of the same request was notified of the
\* artifact of a second load.
C21_Witness ==
  /\ Len(handlers) = 2
  /\ handlers[1].load = "discarded"
  /\ handlers[1].scheduledForCancelation
  /\ handlers[2].load = "done"
  /\ 1 \in removedObs
  /\ log[1].ok = 0
  /\ log[2].ok = 1
  /\ log[2].art = 2

\* The performUpdates calls in progress on the main thread.
DrainsInProgress == {f \in 1 .. Len(stack) : stack[f].t = "drain"}

\* C22: at most one performUpdates is in progress on the main thread, a
\* drain in progress is the current transaction, and there is no current
\* transaction when no drain is in progress.
C22_OneCurrentTransaction ==
  /\ Cardinality(DrainsInProgress) <= 1
  /\ \A f \in DrainsInProgress : current = f
  /\ DrainsInProgress = {} => current = 0

\* C23: a managed asset holds a resolved location (a location or an error)
\* exactly when it is Ready, FailedRetryable or FailedPermanently.
C23_LocationIffResolved ==
  \A k \in AllKeys :
    assets[k].present =>
      (assets[k].loc # "none" <=>
         assets[k].state \in {"Ready", "FailedRetryable", "FailedPermanently"})

\* A candidate for update: a consumer whose observer was cleared, or one in
\* Initial, Failed or Loaded that was not notified.
Candidate(c) == c.observer = 0 \/ (~c.notified /\ c.state \in {"Initial", "Failed", "Loaded"})

Candidates(cs) == {i \in 1 .. Len(cs) : Candidate(cs[i])}

\* C24: called by updateAssetConsumers (the asset is Ready or failed),
\* getNextConsumerToUpdate leaves hasMore true exactly when the consumer list
\* holds more than one candidate.
C24_HasMoreIffSeveral ==
  \A k \in AllKeys :
    (assets[k].present /\ assets[k].state \in {"Ready", "FailedRetryable", "FailedPermanently"}) =>
      (GetNextConsumerToUpdate(assets[k].consumers).hasMore
         <=> Cardinality(Candidates(assets[k].consumers)) > 1)

\* C25: once nothing is left to do, a managed asset that is Ready or failed
\* has no consumer whose observer was cleared, and every request handler has
\* as many consumers as its count says: the cleared consumers were removed
\* and their handlers released.
C25_ClearedConsumersRemoved ==
  Quiescent =>
    /\ \A k \in AllKeys :
         (assets[k].present /\ assets[k].state \in {"Ready", "FailedRetryable", "FailedPermanently"}) =>
           \A i \in 1 .. Len(assets[k].consumers) : assets[k].consumers[i].observer # 0
    /\ \A h \in 1 .. Len(handlers) :
         handlers[h].consumersCount =
           Cardinality({i \in 1 .. Len(assets[handlers[h].key].consumers) :
                          assets[handlers[h].key].consumers[i].handler = h
                          /\ assets[handlers[h].key].consumers[i].observer # 0})

\* C26: once nothing is left to do (no update scheduled, no transaction
\* current, updates not paused), no managed asset of the registry is
\* removable: none is without consumers and without a live observable under
\* a URL key or with the removal of unused local assets enabled.
C26_RemovableCollected ==
  Quiescent => \A k \in AllKeys : assets[k].present => ~CanRemoveManagedAsset(Cur, k)

(***************************************************************************)
(* SpecFlush: a URL asset with observers that come and go while updates    *)
(* are paused and resumed.                                                 *)
(***************************************************************************)
NextFlush ==
  \/ MainThread
  \/ Worker({"ok"})
  \/ Adds({"url"}, {Img64, Raw64})
  \/ Removes
  \/ BeginPauseUpdates
  \/ \E th \in Threads : EndPauseUpdates(th)
  \/ EndPauseResume

SpecFlush == Init /\ [][NextFlush]_vars

\* Load requests wait and updates are not paused: a flushLoadRequests task is
\* scheduled or running.
FlushIsScheduled ==
  (pendingLoadRequests # <<>> /\ pauseUpdatesCount = 0) => pendingLoadRequestsScheduled

\* The request at the front of _pendingLoadRequests was popped.
Popped == pendingLoadRequests # <<>> /\ pendingLoadRequests' = Tail(pendingLoadRequests)

\* While updates are paused no request leaves _pendingLoadRequests; a
\* request that leaves it is the one at the front, and it is started or
\* canceled.
PoppedWhenUnpaused ==
  /\ Popped \/ SubSeq(pendingLoadRequests', 1, Len(pendingLoadRequests)) = pendingLoadRequests
  /\ Popped =>
       /\ pauseUpdatesCount = 0
       /\ LET h == Head(pendingLoadRequests) IN
            handlers'[h].starts + handlers'[h].cancels
              = handlers[h].starts + handlers[h].cancels + 1

\* A turn of flushLoadRequests that finds a request waiting and updates not
\* paused pops it: the queue gets shorter with every turn of the worker's task.
FlushMakesProgress ==
  (FlushLoadRequests /\ pendingLoadRequests # <<>> /\ pauseUpdatesCount = 0) => Popped

AttachedTo(h) ==
  {ki \in AllKeys \X (1 .. MaxObservers) :
     /\ ki[2] <= Len(assets[ki[1]].consumers)
     /\ assets[ki[1]].consumers[ki[2]].handler = h}

\* Every request handler counts the consumers attached to it, and one
\* scheduled for cancelation has none.
CountsAreExact ==
  \A h \in 1 .. Len(handlers) :
    /\ handlers[h].consumersCount = Cardinality(AttachedTo(h))
    /\ handlers[h].consumersCount >= 0
    /\ handlers[h].scheduledForCancelation => AttachedTo(h) = {}

\* A request handler scheduled for cancelation stays so.
CancelationIsFinal ==
  \A h \in 1 .. Len(handlers) :
    handlers[h].scheduledForCancelation => handlers'[h].scheduledForCancelation

\* C28: a request handler's consumers count is the number of consumers
\* attached to it, never negative, and a handler scheduled for cancelation is
\* never attached to a consumer again.
C28_ConsumersCountExact == []CountsAreExact /\ [][CancelationIsFinal]_vars

\* After setResolvedAssetLocation reset the consumers, the first request
\* handler is scheduled for cancelation with no consumer, and both consumers
\* are attached to a second one.
C28_Witness ==
  /\ Len(handlers) = 2
  /\ handlers[1].scheduledForCancelation
  /\ handlers[1].consumersCount = 0
  /\ handlers[2].consumersCount = 2
  /\ ~handlers[2].scheduledForCancelation
  /\ setLocCalls = 1

\* C29: onLoad is never invoked through an observer that was cleared: when
\* notifyAssetConsumer, having released the lock, reads the consumer's
\* observer, it is not null.
C29_ObserverNotNull == ~crashed

====
